---- MODULE Spec2Model ----
(***************************************************************************)
(* The image gallery of src/main.py: the upload pipeline (POST /upload),   *)
(* the retrieval of an image with its caption (GET /files/<filename>) and  *)
(* the raw image route (GET /image/<filename>), over the object store and  *)
(* the local staging directory.                                            *)
(*                                                                         *)
(* File names and paths are sequences of one-character strings, so that    *)
(* str.replace is computed as Python computes it.  File contents and the   *)
(* caption service's answers are sequences of lexical tokens: the JSON     *)
(* punctuation, a blank, quoted string literals, and the bytes of a JPEG.  *)
(***************************************************************************)
EXTENDS Integers, Sequences, FiniteSets, TLC

VARIABLES gcs, files, req, served, prev, reqs

vars == <<gcs, files, req, served, prev, reqs>>

(***************************************************************************)
(* Bounds of the model.                                                    *)
(***************************************************************************)
\* the requests served since the server started
MaxRequests == 2

(***************************************************************************)
(* Strings.                                                                *)
(***************************************************************************)
BUCKET_NAME == "sutcliff-fau-cloud-native"

LOCAL_DIR == <<"f", "i", "l", "e", "s">>

JPEG_EXT == <<".", "j", "p", "e", "g">>
JPG_EXT == <<".", "j", "p", "g">>
JSON_EXT == <<".", "j", "s", "o", "n">>

\* the file names a client sends: an image name, an image name that holds
\* an image extension before its own, and a name without image extension
C_JPG == <<"c">> \o JPG_EXT
C_JPG_JPEG == <<"c">> \o JPG_EXT \o JPEG_EXT
C_JSON == <<"c">> \o JSON_EXT
FileNames == { C_JPG, C_JPG_JPEG, C_JSON }

\* two image names that differ in the spelling of their extension only
C_JPEG == <<"c">> \o JPEG_EXT
ImageNames == { C_JPG, C_JPEG }

\* os.path.join(LOCAL_DIR, name), for a relative name
PathJoin(dir, name) == dir \o <<"/">> \o name

\* str.startswith
StartsWith(s, prefix) ==
    /\ Len(s) >= Len(prefix)
    /\ SubSeq(s, 1, Len(prefix)) = prefix

\* str.replace(old, new): every non-overlapping occurrence, left to right
RECURSIVE StrReplace(_, _, _)
StrReplace(s, old, new) ==
    IF Len(s) < Len(old) THEN s
    ELSE IF StartsWith(s, old)
         THEN new \o StrReplace(SubSeq(s, Len(old) + 1, Len(s)), old, new)
         ELSE <<Head(s)>> \o StrReplace(Tail(s), old, new)

\* s.replace(".jpeg", ".json").replace(".jpg", ".json")
JsonName(s) == StrReplace(StrReplace(s, JPEG_EXT, JSON_EXT), JPG_EXT, JSON_EXT)

\* JsonName of the names and paths in reach, computed once
DerivedName ==
    [s \in (FileNames \cup ImageNames)
            \cup { PathJoin(LOCAL_DIR, f) : f \in FileNames \cup ImageNames }
       |-> JsonName(s)]

\* the keys of the bucket and the paths of the staging directory in reach
Keys == FileNames \cup { DerivedName[f] : f \in FileNames }
Paths == { PathJoin(LOCAL_DIR, k) : k \in Keys }
         \cup { DerivedName[PathJoin(LOCAL_DIR, f)] : f \in FileNames }

\* the keys and the paths in reach of the image names
ImageKeys == ImageNames \cup { DerivedName[f] : f \in ImageNames }
ImagePaths == { PathJoin(LOCAL_DIR, k) : k \in ImageKeys }
              \cup { DerivedName[PathJoin(LOCAL_DIR, f)] : f \in ImageNames }

(***************************************************************************)
(* File contents and JSON.                                                 *)
(***************************************************************************)
Absent == <<"<absent>">>
NoText == <<"<no response>">>
NoValue == [type |-> "none"]

WS == " "

Quote(s) == "\"" \o s \o "\""

\* the bytes of an image, and the two images a client uploads
Jpeg(n) == <<"<jpeg>", n>>
Payloads == { Jpeg("1"), Jpeg("2") }

CatTitle(bytes) == "Cat " \o bytes[2]
CatDescription(bytes) == "A cat " \o bytes[2] \o "."

DEFAULT_TITLE == "Untitled"
DEFAULT_DESCRIPTION == "No description available."

\* the string literals that occur in the documents of the model
Literals ==
    {"title", "description", DEFAULT_TITLE, DEFAULT_DESCRIPTION}
    \cup { CatTitle(b) : b \in Payloads }
    \cup { CatDescription(b) : b \in Payloads }

StringTokens == { Quote(s) : s \in Literals }
Unquoted == [t \in StringTokens |-> CHOOSE s \in Literals : t = Quote(s)]
IsStringToken(t) == t \in StringTokens
Unquote(t) == Unquoted[t]

\* a Python dict: its items in insertion order
Dict(items) == [type |-> "dict", items |-> items]
Str(s) == [type |-> "str", s |-> s]
JSONDecodeError == [type |-> "JSONDecodeError"]

DictHas(d, k) == \E i \in 1..Len(d.items) : d.items[i][1] = k
DictGet(d, k) == d.items[CHOOSE i \in 1..Len(d.items) : d.items[i][1] = k][2]
\* d[k] = v: a key already there keeps its place
DictSet(d, k, v) ==
    IF DictHas(d, k)
    THEN Dict([i \in 1..Len(d.items) |->
                  IF d.items[i][1] = k THEN <<k, v>> ELSE d.items[i]])
    ELSE Dict(Append(d.items, <<k, v>>))

\* str.strip()
RECURSIVE LStrip(_)
LStrip(text) ==
    IF text # <<>> /\ Head(text) = WS THEN LStrip(Tail(text)) ELSE text
RECURSIVE RStrip(_)
RStrip(text) ==
    IF text # <<>> /\ text[Len(text)] = WS
    THEN RStrip(SubSeq(text, 1, Len(text) - 1))
    ELSE text
Strip(text) == RStrip(LStrip(text))

IsBlank(t) == t = WS

\* the members of an object, blanks removed: k : v (, k : v)*
RECURSIVE ParseMembers(_, _)
ParseMembers(toks, d) ==
    IF Len(toks) < 3 THEN JSONDecodeError
    ELSE IF ~(IsStringToken(toks[1]) /\ toks[2] = ":" /\ IsStringToken(toks[3]))
    THEN JSONDecodeError
    ELSE LET d2 == DictSet(d, Unquote(toks[1]), Unquote(toks[3]))
         IN  IF Len(toks) = 3 THEN d2
             ELSE IF toks[4] = "," THEN ParseMembers(SubSeq(toks, 5, Len(toks)), d2)
             ELSE JSONDecodeError

\* json.loads, on the grammar of the documents the model draws from: a
\* string, or an object whose values are strings; blanks between tokens
\* are insignificant
JsonLoads(text) ==
    LET toks == SelectSeq(text, LAMBDA t : ~IsBlank(t))
        n == Len(toks)
    IN  IF n = 0 THEN JSONDecodeError
        ELSE IF n = 1
        THEN IF IsStringToken(toks[1]) THEN Str(Unquote(toks[1])) ELSE JSONDecodeError
        ELSE IF toks[1] = "{" /\ toks[n] = "}"
        THEN IF n = 2 THEN Dict(<<>>)
             ELSE ParseMembers(SubSeq(toks, 2, n - 1), Dict(<<>>))
        ELSE JSONDecodeError

\* json.dump with the default separators ", " and ": "
RECURSIVE DumpItems(_)
DumpItems(items) ==
    IF items = <<>> THEN <<>>
    ELSE <<Quote(items[1][1]), ":", WS, Quote(items[1][2])>>
         \o (IF Len(items) = 1 THEN <<>> ELSE <<",", WS>> \o DumpItems(Tail(items)))

JsonDumps(v) ==
    IF v.type = "str" THEN <<Quote(v.s)>>
    ELSE <<"{">> \o DumpItems(v.items) \o <<"}">>

DefaultMetadata ==
    Dict(<< <<"title", DEFAULT_TITLE>>, <<"description", DEFAULT_DESCRIPTION>> >>)

(***************************************************************************)
(* The collaborators: the bucket, the staging directory, the caption       *)
(* service.                                                                *)
(***************************************************************************)
\* what the caption service may answer for the file it was given: the
\* requested document, nothing, a blank, a document without a description,
\* a JSON string, or text that is no JSON
CaptionText(bytes) ==
    <<"{", Quote("title"), ":", Quote(CatTitle(bytes)), ",",
      Quote("description"), ":", Quote(CatDescription(bytes)), "}">>
TitleOnlyText(bytes) == <<"{", Quote("title"), ":", Quote(CatTitle(bytes)), "}">>
StringText(bytes) == <<Quote(CatTitle(bytes))>>
FencedText == <<"<fence>", "{", "}", "<fence>">>
\* the caption service asked without the file: it answers for any image
ResponsesForAnyImage(content) ==
    {<<>>, <<WS>>, FencedText}
    \cup UNION { {CaptionText(b), TitleOnlyText(b), StringText(b)} : b \in Payloads }

Responses(content) ==
    {<<>>, <<WS>>, FencedText}
    \cup (IF content \in Payloads
          THEN {CaptionText(content), TitleOnlyText(content), StringText(content)}
          ELSE {})

NoError == "none"

\* the bucket, the staging directory and the request a handler runs on
World(g, f, r) == [gcs |-> g, files |-> f, r |-> r]

\* upload_to_gcs that leaves a blob that is already there as it is
UploadToGcsKeeping(w, file_path, blob_name, fault) ==
    IF w.files[file_path] = Absent THEN [exc |-> "FileNotFoundError", gcs |-> w.gcs]
    ELSE IF fault THEN [exc |-> "GoogleAPIError", gcs |-> w.gcs]
    ELSE IF w.gcs[blob_name] # Absent THEN [exc |-> NoError, gcs |-> w.gcs]
    ELSE [exc |-> NoError, gcs |-> [w.gcs EXCEPT ![blob_name] = w.files[file_path]]]

\* upload_to_gcs: blob.upload_from_filename(file_path) under blob_name
UploadToGcs(w, file_path, blob_name, fault) ==
    IF w.files[file_path] = Absent THEN [exc |-> "FileNotFoundError", gcs |-> w.gcs]
    ELSE IF fault THEN [exc |-> "GoogleAPIError", gcs |-> w.gcs]
    ELSE [exc |-> NoError, gcs |-> [w.gcs EXCEPT ![blob_name] = w.files[file_path]]]

\* download_from_gcs: blob.download_to_filename(local_path).  The client
\* library opens local_path for writing before it asks for the blob; when
\* the blob is missing it raises NotFound and, depending on its version,
\* removes the file it opened or leaves it empty.
DownloadFromGcs(w, file_name, fault, removes) ==
    LET local_path == PathJoin(LOCAL_DIR, file_name)
    IN  IF w.gcs[file_name] = Absent
        THEN [exc |-> "NotFound",
              files |-> [w.files EXCEPT ![local_path] = IF removes THEN Absent ELSE <<>>]]
        ELSE IF fault
        THEN [exc |-> "GoogleAPIError", files |-> [w.files EXCEPT ![local_path] = <<>>]]
        ELSE [exc |-> NoError, files |-> [w.files EXCEPT ![local_path] = w.gcs[file_name]]]

\* generate_image_caption with the test of the answer inverted
GenerateImageCaptionInverted(w, image_path, fault, text) ==
    IF w.files[image_path] = Absent
    THEN [exc |-> "FileNotFoundError", text |-> NoText, metadata |-> NoValue]
    ELSE IF fault
    THEN [exc |-> "ServiceError", text |-> NoText, metadata |-> NoValue]
    ELSE LET response_text == Strip(text)
             metadata == IF response_text = <<>> THEN JsonLoads(response_text)
                         ELSE DefaultMetadata
         IN  IF metadata = JSONDecodeError
             THEN [exc |-> "JSONDecodeError", text |-> text, metadata |-> NoValue]
             ELSE [exc |-> NoError, text |-> text, metadata |-> metadata]

\* generate_image_caption without the strip() of the answer
GenerateImageCaptionNoStrip(w, image_path, fault, text) ==
    IF w.files[image_path] = Absent
    THEN [exc |-> "FileNotFoundError", text |-> NoText, metadata |-> NoValue]
    ELSE IF fault
    THEN [exc |-> "ServiceError", text |-> NoText, metadata |-> NoValue]
    ELSE LET response_text == text
             metadata == IF response_text # <<>> THEN JsonLoads(response_text)
                         ELSE DefaultMetadata
         IN  IF metadata = JSONDecodeError
             THEN [exc |-> "JSONDecodeError", text |-> text, metadata |-> NoValue]
             ELSE [exc |-> NoError, text |-> text, metadata |-> metadata]

\* generate_image_caption with its commented-out except branch in force: an
\* answer that does not parse becomes the default record
GenerateImageCaptionCatching(w, image_path, fault, text) ==
    IF w.files[image_path] = Absent
    THEN [exc |-> "FileNotFoundError", text |-> NoText, metadata |-> NoValue]
    ELSE IF fault
    THEN [exc |-> "ServiceError", text |-> NoText, metadata |-> NoValue]
    ELSE LET response_text == Strip(text)
             metadata == IF response_text # <<>> THEN JsonLoads(response_text)
                         ELSE DefaultMetadata
         IN  IF metadata = JSONDecodeError
             THEN [exc |-> NoError, text |-> text, metadata |-> DefaultMetadata]
             ELSE [exc |-> NoError, text |-> text, metadata |-> metadata]

\* generate_image_caption: upload the file to the service, ask for the
\* caption, parse the answer
GenerateImageCaption(w, image_path, fault, text) ==
    IF w.files[image_path] = Absent
    THEN [exc |-> "FileNotFoundError", text |-> NoText, metadata |-> NoValue]
    ELSE IF fault
    THEN [exc |-> "ServiceError", text |-> NoText, metadata |-> NoValue]
    ELSE LET response_text == Strip(text)
             metadata == IF response_text # <<>> THEN JsonLoads(response_text)
                         ELSE DefaultMetadata
         IN  IF metadata = JSONDecodeError
             THEN [exc |-> "JSONDecodeError", text |-> text, metadata |-> NoValue]
             ELSE [exc |-> NoError, text |-> text, metadata |-> metadata]

\* os.remove(path)
OsRemove(w, path) ==
    IF w.files[path] = Absent THEN [exc |-> "FileNotFoundError", files |-> w.files]
    ELSE [exc |-> NoError, files |-> [w.files EXCEPT ![path] = Absent]]

(***************************************************************************)
(* Requests and responses.                                                 *)
(***************************************************************************)
NewRequest(kind, pc, filename, data) ==
    [kind |-> kind, pc |-> pc, filename |-> filename, data |-> data,
     text |-> NoText, metadata |-> NoValue,
     status |-> "none", code |-> 0, exc |-> NoError, body |-> NoValue]

InFlight(r) == r.status = "none"
Finished(r) == ~InFlight(r)
IsUploadRunning(r) == r.kind = "upload" /\ InFlight(r)
IsGetFileRunning(r) == r.kind = "files" /\ InFlight(r)

Responded(r, status, code, body) ==
    [r EXCEPT !.status = status, !.code = code, !.body = body]
Raised(r, status, code, exc) ==
    [r EXCEPT !.status = status, !.code = code, !.exc = exc, !.body = [error |-> exc]]

FilesUrl(filename) == <<"/", "f", "i", "l", "e", "s", "/">> \o filename
ImageUrl(filename) == <<"/", "i", "m", "a", "g", "e", "/">> \o filename

\* upload: return redirect(f"/files/{file.filename}")
Redirect(r) == Responded(r, "redirect", 302, [location |-> FilesUrl(r.filename)])
\* the error document returned without its status
UploadErrorDefaultStatus(r, exc) == Raised(r, "error", 200, exc)
\* upload: except Exception -> jsonify({"error": str(e)}), 500
UploadError(r, exc) == Raised(r, "error", 500, exc)
\* the error fragment returned as 404
GetFileErrorNotFound(r, exc) == Raised(r, "errorpage", 404, exc)
\* get_file: except Exception -> the error fragment, with the default status
GetFileError(r, exc) == Raised(r, "errorpage", 200, exc)
\* get_file: the page of the image
GetFilePage(r, metadata) ==
    Responded(r, "page", 200,
              [title |-> DictGet(metadata, "title"),
               img |-> ImageUrl(r.filename),
               description |-> DictGet(metadata, "description")])

(***************************************************************************)
(* POST /upload, statement by statement.  A request stays at the statement *)
(* that raised.                                                            *)
(***************************************************************************)
LocalPath(r) == PathJoin(LOCAL_DIR, r.filename)
JsonPath(r) == DerivedName[LocalPath(r)]
JsonFilename(r) == DerivedName[r.filename]

\* file = request.files['form_file'], which raises when the form has no
\* such field
UploadForm(filename, data, has_field) ==
    IF has_field THEN NewRequest("upload", "save", filename, data)
    ELSE UploadError(NewRequest("upload", "form", filename, data), "KeyError")

\* file.save(local_path)
UploadSave(w, fault) ==
    IF fault THEN [w EXCEPT !.r = UploadError(@, "OSError")]
    ELSE [w EXCEPT !.files[LocalPath(w.r)] = w.r.data, !.r.pc = "upload_image"]

\* upload() without the upload of the image
UploadImageSkipped(w, fault) == [w EXCEPT !.r.pc = "caption"]

\* upload_to_gcs(BUCKET_NAME, local_path, file.filename)
UploadImage(w, fault) ==
    LET out == UploadToGcs(w, LocalPath(w.r), w.r.filename, fault)
    IN  IF out.exc # NoError THEN [w EXCEPT !.r = UploadError(@, out.exc)]
        ELSE [w EXCEPT !.gcs = out.gcs, !.r.pc = "caption"]

\* upload() that publishes the image again and asks again when the caption
\* fails
UploadCaptionRetrying(w, fault, text) ==
    LET out == GenerateImageCaption(w, LocalPath(w.r), fault, text)
    IN  IF out.exc # NoError
        THEN [w EXCEPT !.r.pc = "upload_image"]
        ELSE [w EXCEPT !.r.pc = "dump", !.r.text = out.text,
                       !.r.metadata = out.metadata]

\* metadata = generate_image_caption(local_path)
UploadCaption(w, fault, text) ==
    LET out == GenerateImageCaption(w, LocalPath(w.r), fault, text)
    IN  IF out.exc # NoError
        THEN [w EXCEPT !.r = UploadError([@ EXCEPT !.text = out.text], out.exc)]
        ELSE [w EXCEPT !.r.pc = "dump", !.r.text = out.text,
                       !.r.metadata = out.metadata]

\* with open(json_path, "w") as json_file: json.dump(metadata, json_file)
UploadDump(w, fault) ==
    IF fault THEN [w EXCEPT !.r = UploadError(@, "OSError")]
    ELSE [w EXCEPT !.files[JsonPath(w.r)] = JsonDumps(w.r.metadata),
                   !.r.pc = "upload_json"]

\* the metadata published under the name of the image
UploadJsonAsImage(w, fault) ==
    LET out == UploadToGcs(w, JsonPath(w.r), w.r.filename, fault)
    IN  IF out.exc # NoError THEN [w EXCEPT !.r = UploadError(@, out.exc)]
        ELSE [w EXCEPT !.gcs = out.gcs, !.r.pc = "remove_image"]

\* upload() that removes its staged files when the metadata upload fails
UploadJsonCleaning(w, fault) ==
    LET out == UploadToGcs(w, JsonPath(w.r), JsonFilename(w.r), fault)
    IN  IF out.exc # NoError
        THEN [w EXCEPT !.files[LocalPath(w.r)] = Absent,
                       !.files[JsonPath(w.r)] = Absent,
                       !.r = UploadError(@, out.exc)]
        ELSE [w EXCEPT !.gcs = out.gcs, !.r.pc = "remove_image"]

\* upload_to_gcs(BUCKET_NAME, json_path, json_filename)
UploadJson(w, fault) ==
    LET out == UploadToGcs(w, JsonPath(w.r), JsonFilename(w.r), fault)
    IN  IF out.exc # NoError THEN [w EXCEPT !.r = UploadError(@, out.exc)]
        ELSE [w EXCEPT !.gcs = out.gcs, !.r.pc = "remove_image"]

\* upload() without os.remove(local_path)
UploadRemoveImageSkipped(w) == [w EXCEPT !.r.pc = "remove_json"]

\* os.remove(local_path)
UploadRemoveImage(w) ==
    LET out == OsRemove(w, LocalPath(w.r))
    IN  IF out.exc # NoError THEN [w EXCEPT !.r = UploadError(@, out.exc)]
        ELSE [w EXCEPT !.files = out.files, !.r.pc = "remove_json"]

\* os.remove(json_path); return redirect(...)
UploadRemoveJson(w) ==
    LET out == OsRemove(w, JsonPath(w.r))
    IN  IF out.exc # NoError THEN [w EXCEPT !.r = UploadError(@, out.exc)]
        ELSE [w EXCEPT !.files = out.files,
                       !.r = Redirect([@ EXCEPT !.pc = "return"])]

UploadFaultPoints == {"save", "upload_image", "caption", "dump", "upload_json"}

\* the next statement of upload(); the collaborator it calls fails when
\* fault holds
UploadStatement(w, fault, text) ==
    CASE w.r.pc = "save" -> UploadSave(w, fault)
      [] w.r.pc = "upload_image" -> UploadImage(w, fault)
      [] w.r.pc = "caption" -> UploadCaption(w, fault, text)
      [] w.r.pc = "dump" -> UploadDump(w, fault)
      [] w.r.pc = "upload_json" -> UploadJson(w, fault)
      [] w.r.pc = "remove_image" -> UploadRemoveImage(w)
      [] w.r.pc = "remove_json" -> UploadRemoveJson(w)

\* upload() from its first statement to its response, nothing running
\* beside it; fault_at is the statement whose collaborator fails, if any
RECURSIVE UploadHandler(_, _, _)
UploadHandler(w, fault_at, text) ==
    IF Finished(w.r) THEN w
    ELSE UploadHandler(UploadStatement(w, w.r.pc = fault_at, text), fault_at, text)

(***************************************************************************)
(* GET /files/<filename>, statement by statement.                          *)
(***************************************************************************)
\* image_path = download_from_gcs(BUCKET_NAME, filename)
GetFileImage(w, fault, removes) ==
    LET out == DownloadFromGcs(w, w.r.filename, fault, removes)
    IN  IF out.exc # NoError
        THEN [w EXCEPT !.files = out.files, !.r = GetFileError(@, out.exc)]
        ELSE [w EXCEPT !.files = out.files, !.r.pc = "download_json"]

\* the download of the metadata that deletes the blob it has read
GetFileJsonMoving(w, fault, removes) ==
    LET out == DownloadFromGcs(w, JsonFilename(w.r), fault, removes)
    IN  IF out.exc # NoError
        THEN [w EXCEPT !.files = out.files, !.r = GetFileError(@, out.exc)]
        ELSE [w EXCEPT !.files = out.files, !.r.pc = "load",
                       !.gcs[JsonFilename(w.r)] = Absent]

\* json_path = download_from_gcs(BUCKET_NAME, filename.replace(...))
GetFileJson(w, fault, removes) ==
    LET out == DownloadFromGcs(w, JsonFilename(w.r), fault, removes)
    IN  IF out.exc # NoError
        THEN [w EXCEPT !.files = out.files, !.r = GetFileError(@, out.exc)]
        ELSE [w EXCEPT !.files = out.files, !.r.pc = "load"]

\* get_file() reading the description with metadata.get
GetFileLoadOptionalDescription(w) ==
    LET json_path == PathJoin(LOCAL_DIR, JsonFilename(w.r))
        metadata == JsonLoads(w.files[json_path])
    IN  IF w.files[json_path] = Absent
        THEN [w EXCEPT !.r = GetFileError(@, "FileNotFoundError")]
        ELSE IF metadata = JSONDecodeError
        THEN [w EXCEPT !.r = GetFileError(@, "JSONDecodeError")]
        ELSE IF metadata.type # "dict"
        THEN [w EXCEPT !.r = GetFileError(@, "TypeError")]
        ELSE IF ~DictHas(metadata, "title")
        THEN [w EXCEPT !.r = GetFileError(@, "KeyError")]
        ELSE [w EXCEPT !.r = Responded([@ EXCEPT !.pc = "return",
                                                 !.metadata = metadata],
                                       "page", 200,
                                       [title |-> DictGet(metadata, "title"),
                                        img |-> ImageUrl(w.r.filename),
                                        description |-> "None"])]

\* open(json_path), json.load, metadata['title'], metadata['description']
\* and the page; any exception ends in the error fragment
GetFileLoad(w) ==
    LET json_path == PathJoin(LOCAL_DIR, JsonFilename(w.r))
        metadata == JsonLoads(w.files[json_path])
    IN  IF w.files[json_path] = Absent
        THEN [w EXCEPT !.r = GetFileError(@, "FileNotFoundError")]
        ELSE IF metadata = JSONDecodeError
        THEN [w EXCEPT !.r = GetFileError(@, "JSONDecodeError")]
        ELSE IF metadata.type # "dict"
        THEN [w EXCEPT !.r = GetFileError(@, "TypeError")]
        ELSE IF ~DictHas(metadata, "title") \/ ~DictHas(metadata, "description")
        THEN [w EXCEPT !.r = GetFileError(@, "KeyError")]
        ELSE [w EXCEPT !.r = GetFilePage([@ EXCEPT !.pc = "return",
                                                   !.metadata = metadata],
                                         metadata)]

GetFileFaultPoints == {"download_image", "download_json"}

GetFileStatement(w, fault, removes) ==
    CASE w.r.pc = "download_image" -> GetFileImage(w, fault, removes)
      [] w.r.pc = "download_json" -> GetFileJson(w, fault, removes)
      [] w.r.pc = "load" -> GetFileLoad(w)

\* get_file() from its first statement to its response
RECURSIVE GetFileHandler(_, _, _)
GetFileHandler(w, fault_at, removes) ==
    IF Finished(w.r) THEN w
    ELSE GetFileHandler(GetFileStatement(w, w.r.pc = fault_at, removes),
                        fault_at, removes)

(***************************************************************************)
(* GET /image/<filename>                                                   *)
(***************************************************************************)
\* get_image() that serves the blob when no staged file is there
GetImageHandlerFromBucket(w) ==
    LET path == PathJoin(LOCAL_DIR, w.r.filename)
        content == IF w.files[path] # Absent THEN w.files[path]
                   ELSE w.gcs[w.r.filename]
    IN  IF content = Absent
        THEN [w EXCEPT !.r = Raised(@, "unhandled", 500, "FileNotFoundError")]
        ELSE [w EXCEPT !.r = Responded([@ EXCEPT !.pc = "return"], "file", 200,
                                       [content |-> content])]

\* send_file(os.path.join(LOCAL_DIR, filename)): nothing catches the
\* exception raised for a missing file
GetImageHandler(w) ==
    LET path == PathJoin(LOCAL_DIR, w.r.filename)
    IN  IF w.files[path] = Absent
        THEN [w EXCEPT !.r = Raised(@, "unhandled", 500, "FileNotFoundError")]
        ELSE [w EXCEPT !.r = Responded([@ EXCEPT !.pc = "return"], "file", 200,
                                       [content |-> w.files[path]])]

(***************************************************************************)
(* Requests served one at a time: req is the request served last.          *)
(***************************************************************************)
NoRequest == Responded(NewRequest("none", "return", <<>>, <<>>), "idle", 0, NoValue)

\* no request running
Clients == {"a", "b"}
NoRequests == [c \in Clients |-> NoRequest]

EmptyBucket == [k \in Keys |-> Absent]
EmptyDir == [p \in Paths |-> Absent]

\* the bucket outlives the server: at its start it is empty, or holds the
\* pair that a successful upload of an image left there
PublishedBucket ==
    LET w == UploadHandler(
                 World(EmptyBucket, EmptyDir, UploadForm(C_JPG, Jpeg("1"), TRUE)),
                 "never", CaptionText(Jpeg("1")))
    IN  w.gcs

\* os.makedirs(LOCAL_DIR, exist_ok=True): an empty staging directory
Init ==
    /\ gcs \in {EmptyBucket, PublishedBucket}
    /\ files = EmptyDir
    /\ req = NoRequest
    /\ served = 0
    /\ prev = NoRequest
    /\ reqs = NoRequests

Serve(w) ==
    /\ served < MaxRequests
    /\ served' = served + 1
    /\ gcs' = w.gcs
    /\ files' = w.files
    /\ req' = w.r
    /\ UNCHANGED <<prev, reqs>>

\* the inputs of one upload: the file of the form, the statement whose
\* collaborator fails, and the caption service's answer when it is asked
PostUpload ==
    \E filename \in FileNames, data \in Payloads,
       fault_at \in UploadFaultPoints \cup {"never"} :
      \E text \in (IF fault_at \in {"save", "upload_image", "caption"}
                   THEN {NoText} ELSE Responses(data)) :
        Serve(UploadHandler(World(gcs, files, UploadForm(filename, data, TRUE)),
                            fault_at, text))

\* a form without the field form_file
PostUploadNoFile ==
    Serve(World(gcs, files, UploadForm(<<>>, <<>>, FALSE)))

GetFiles ==
    \E filename \in FileNames, fault_at \in GetFileFaultPoints \cup {"never"},
       removes \in BOOLEAN :
        Serve(GetFileHandler(
                  World(gcs, files, NewRequest("files", "download_image", filename, <<>>)),
                  fault_at, removes))

GetImage ==
    \E filename \in FileNames :
        Serve(GetImageHandler(
                  World(gcs, files, NewRequest("image", "send_file", filename, <<>>))))

Next ==
    \/ PostUpload
    \/ PostUploadNoFile
    \/ GetFiles
    \/ GetImage

Spec == Init /\ [][Next]_vars

(***************************************************************************)
(* Requests served one at a time, for the image names: prev is the request *)
(* served before req.                                                      *)
(***************************************************************************)
ImageInit ==
    /\ gcs = [k \in ImageKeys |-> Absent]
    /\ files = [p \in ImagePaths |-> Absent]
    /\ req = NoRequest
    /\ served = 0
    /\ prev = NoRequest
    /\ reqs = NoRequests

ServeAfter(w) ==
    /\ served < MaxRequests
    /\ served' = served + 1
    /\ gcs' = w.gcs
    /\ files' = w.files
    /\ req' = w.r
    /\ prev' = req
    /\ UNCHANGED reqs

PostUploadImage ==
    \E filename \in ImageNames, data \in Payloads,
       fault_at \in UploadFaultPoints \cup {"never"} :
      \E text \in (IF fault_at \in {"save", "upload_image", "caption"}
                   THEN {NoText} ELSE Responses(data)) :
        ServeAfter(UploadHandler(World(gcs, files, UploadForm(filename, data, TRUE)),
                                 fault_at, text))

GetFilesImage ==
    \E filename \in ImageNames, fault_at \in GetFileFaultPoints \cup {"never"},
       removes \in BOOLEAN :
        ServeAfter(GetFileHandler(
                       World(gcs, files,
                             NewRequest("files", "download_image", filename, <<>>)),
                       fault_at, removes))

ImageNext ==
    \/ PostUploadImage
    \/ GetFilesImage

ImageSpec == ImageInit /\ [][ImageNext]_vars

(***************************************************************************)
(* Requests run side by side, one thread for each, a statement at a time:  *)
(* reqs[c] is the request of client c, running or answered.  A client      *)
(* sends its next request when it has the answer to the one before.        *)
(***************************************************************************)
StepNames == { C_JPG }

StepInit ==
    /\ gcs = EmptyBucket
    /\ files = EmptyDir
    /\ req = NoRequest
    /\ served = 0
    /\ prev = NoRequest
    /\ reqs = NoRequests

Begin(c, r) ==
    /\ Finished(reqs[c])
    /\ served < MaxRequests
    /\ served' = served + 1
    /\ reqs' = [reqs EXCEPT ![c] = r]
    /\ UNCHANGED <<gcs, files, req, prev>>

Run(c, w) ==
    /\ gcs' = w.gcs
    /\ files' = w.files
    /\ reqs' = [reqs EXCEPT ![c] = w.r]
    /\ UNCHANGED <<req, served, prev>>

BeginUpload(c) ==
    \E filename \in StepNames, data \in Payloads :
        Begin(c, UploadForm(filename, data, TRUE))

BeginGetFile(c) ==
    \E filename \in StepNames :
        Begin(c, NewRequest("files", "download_image", filename, <<>>))

\* the next statement of the upload of client c; the caption service
\* answers for the file that is staged when it is asked
StepUpload(c) ==
    /\ IsUploadRunning(reqs[c])
    /\ \E fault \in (IF reqs[c].pc \in UploadFaultPoints THEN BOOLEAN ELSE {FALSE}) :
         \E text \in (IF reqs[c].pc = "caption" /\ ~fault
                          /\ files[LocalPath(reqs[c])] # Absent
                      THEN Responses(files[LocalPath(reqs[c])])
                      ELSE {NoText}) :
           Run(c, UploadStatement(World(gcs, files, reqs[c]), fault, text))

\* the next statement of the retrieval of client c
StepGetFile(c) ==
    /\ IsGetFileRunning(reqs[c])
    /\ \E fault \in (IF reqs[c].pc \in GetFileFaultPoints THEN BOOLEAN ELSE {FALSE}),
          removes \in BOOLEAN :
           Run(c, GetFileStatement(World(gcs, files, reqs[c]), fault, removes))

StepNext ==
    \E c \in Clients :
        \/ BeginUpload(c)
        \/ BeginGetFile(c)
        \/ StepUpload(c)
        \/ StepGetFile(c)

StepSpec == StepInit /\ [][StepNext]_vars

\* one client alone: its requests run a statement at a time, and the thread
\* of a running request is given its turn
AloneNext ==
    \/ BeginUpload("a")
    \/ BeginGetFile("a")
    \/ StepUpload("a")
    \/ StepGetFile("a")

AloneSpec ==
    /\ StepInit
    /\ [][AloneNext]_vars
    /\ WF_vars(StepUpload("a") \/ StepGetFile("a"))

(***************************************************************************)
(* The claims.                                                             *)
(***************************************************************************)
IsUpload(r) == r.kind = "upload"
IsGetFile(r) == r.kind = "files"
Succeeded(r) == r.status \in {"redirect", "page", "file"}

\* a document with exactly the fields title and description
IsCaptionRecord(v) ==
    /\ v.type = "dict"
    /\ Len(v.items) = 2
    /\ { v.items[i][1] : i \in 1..Len(v.items) } = {"title", "description"}

\* the caption service answered, and what it answered
Answered(r) == r.text # NoText
EmptyAnswer(r) == Answered(r) /\ Strip(r.text) = <<>>
ValidAnswer(r) == Answered(r) /\ ~EmptyAnswer(r) /\ IsCaptionRecord(JsonLoads(Strip(r.text)))
MalformedAnswer(r) == Answered(r) /\ ~EmptyAnswer(r) /\ ~ValidAnswer(r)
UnparsableAnswer(r) ==
    Answered(r) /\ ~EmptyAnswer(r) /\ JsonLoads(Strip(r.text)) = JSONDecodeError

EndsWith(s, suffix) ==
    /\ Len(s) >= Len(suffix)
    /\ SubSeq(s, Len(s) - Len(suffix) + 1, Len(s)) = suffix
\* the name with its image extension replaced by .json
ExtensionSwapped(f) ==
    IF EndsWith(f, JPEG_EXT) THEN SubSeq(f, 1, Len(f) - Len(JPEG_EXT)) \o JSON_EXT
    ELSE IF EndsWith(f, JPG_EXT) THEN SubSeq(f, 1, Len(f) - Len(JPG_EXT)) \o JSON_EXT
    ELSE f

\* the bucket g2 differs from g at most in the keys of ks
SameOutside(g, g2, ks) == \A k \in Keys \ ks : g2[k] = g[k]

\* a successful upload r left in the bucket g2, which was g, the image under
\* its name, the record under the key j, and nothing else
PublishedPair(r, g, g2, j) ==
    /\ j # r.filename
    /\ g2[r.filename] = r.data
    /\ j \in Keys
    /\ g2[j] # Absent
    /\ JsonLoads(g2[j]) = r.metadata
    /\ SameOutside(g, g2, {r.filename, j})

RecordPublished(r, g) ==
    (IsUpload(r) /\ r.status = "redirect" /\ ValidAnswer(r))
    => JsonLoads(g[JsonFilename(r)]) = JsonLoads(Strip(r.text))

\* C2: when the caption service answers a valid two-field document and no
\* step fails, the metadata object under the derived key is that document,
\* and the retrieval of the same file name that follows, unless a download
\* fails, shows the title and the description of that document.
C2_RoundTrip ==
    [][/\ RecordPublished(req', gcs')
       /\ (/\ IsUpload(req) /\ req.status = "redirect" /\ ValidAnswer(req)
           /\ IsGetFile(req') /\ req'.filename = req.filename
           /\ req'.exc # "GoogleAPIError")
          => /\ req'.status = "page"
             /\ req'.body.title = DictGet(JsonLoads(Strip(req.text)), "title")
             /\ req'.body.description
                  = DictGet(JsonLoads(Strip(req.text)), "description")]_vars

C2_Witness ==
    /\ served = 2
    /\ IsGetFile(req) /\ req.status = "page"
    /\ req.filename = C_JPG_JPEG
    /\ req.body.title = CatTitle(Jpeg("2"))
    /\ req.body.description = CatDescription(Jpeg("2"))

\* C3: when the caption service answers nothing, or blanks only, the caption
\* step does not fail, the record published is the default record, and the
\* upload ends in the redirect unless another step fails.
C3_EmptyAnswerDefault ==
    (IsUpload(req) /\ EmptyAnswer(req))
    => /\ req.status \in {"redirect", "error"}
       /\ req.status = "error" => req.pc # "caption"
       /\ req.pc \in {"remove_image", "remove_json", "return"}
          => JsonLoads(gcs[JsonFilename(req)]) = DefaultMetadata

C3_Witness ==
    /\ IsUpload(req) /\ req.text = <<WS>> /\ req.status = "redirect"
    /\ JsonLoads(gcs[JsonFilename(req)]) = DefaultMetadata

\* the upload r failed and changed nothing of the bucket, which was g, but
\* put the image under its name
FailedAfterImage(r, g, g2) ==
    /\ r.status = "error" /\ r.code = 500
    /\ g2 = [g EXCEPT ![r.filename] = r.data]

\* C4 as claimed: every answer that is not empty and is not a valid
\* two-field document makes the upload end in the error response, with no
\* metadata object published.
C4_Original ==
    [][(IsUpload(req') /\ MalformedAnswer(req'))
       => FailedAfterImage(req', gcs, gcs')]_vars

\* C4, amended: every answer that is not empty and does not parse as JSON
\* makes the upload end in the error response, with no metadata object
\* published; an answer that parses is published as it is, whatever its
\* fields.
C4_UnparsableAnswerFails ==
    [][/\ (IsUpload(req') /\ UnparsableAnswer(req'))
          => /\ FailedAfterImage(req', gcs, gcs')
             /\ req'.pc = "caption" /\ req'.exc = "JSONDecodeError"
       /\ (IsUpload(req') /\ MalformedAnswer(req') /\ ~UnparsableAnswer(req')
           /\ req'.status = "redirect")
          => JsonLoads(gcs'[JsonFilename(req')]) = JsonLoads(Strip(req'.text))]_vars

C4_Witness ==
    /\ IsUpload(req) /\ req.text = FencedText
    /\ req.status = "error" /\ req.exc = "JSONDecodeError"
    /\ gcs[req.filename] = req.data

\* C5: an upload ends in the redirect to /files/<filename>, and then the
\* image and the metadata are published and both staged files are removed,
\* or it ends in the JSON error document with status 500, at the statement
\* that raised; it ends in nothing else.
C5_UploadResponses ==
    IsUpload(req)
    => \/ /\ req.status = "redirect" /\ req.code = 302 /\ req.exc = NoError
          /\ req.body = [location |-> FilesUrl(req.filename)]
          /\ req.pc = "return"
          /\ gcs[req.filename] = req.data
          /\ gcs[JsonFilename(req)] = JsonDumps(req.metadata)
          /\ files[LocalPath(req)] = Absent
          /\ files[JsonPath(req)] = Absent
       \/ /\ req.status = "error" /\ req.code = 500 /\ req.exc # NoError
          /\ req.body = [error |-> req.exc]
          /\ req.pc # "return"

C5_Witness ==
    /\ IsUpload(req) /\ req.status = "error" /\ req.code = 500
    /\ req.pc = "remove_json"
    /\ gcs[JsonFilename(req)] = JsonDumps(req.metadata)

\* C6: after an upload that ran alone and ended in the redirect, neither its
\* staged image nor its staged metadata file is in the staging directory.
C6_StagingCleared ==
    (IsUpload(req) /\ req.status = "redirect")
    => /\ files[LocalPath(req)] = Absent
       /\ files[JsonPath(req)] = Absent

C6_Witness ==
    /\ IsUpload(req) /\ req.status = "redirect"
    /\ files = EmptyDir
    /\ gcs[req.filename] = req.data

\* the upload r failed at the caption, at the local write of the metadata or
\* at the upload of the metadata
FailedAfterPublish(r) ==
    /\ IsUpload(r) /\ r.status = "error"
    /\ r.pc \in {"caption", "dump", "upload_json"}

\* the bucket holds a JSON document under the key k
HoldsDocument(g, k) == g[k] # Absent /\ JsonLoads(g[k]) # JSONDecodeError

\* C7: an upload that fails after it published the image leaves the image
\* in the bucket and changes nothing else of it; when the bucket then holds
\* no metadata object under the derived key, the retrieval of that file name
\* that follows ends in the error fragment.
C7_NoRollback ==
    [][/\ FailedAfterPublish(req')
          => gcs' = [gcs EXCEPT ![req'.filename] = req'.data]
       /\ (/\ FailedAfterPublish(req)
           /\ ~HoldsDocument(gcs, JsonFilename(req))
           /\ IsGetFile(req') /\ req'.filename = req.filename)
          => req'.status = "errorpage"]_vars

C7_Witness ==
    /\ served = 2
    /\ IsGetFile(req) /\ req.status = "errorpage" /\ req.exc = "NotFound"
    /\ req.filename = C_JPG_JPEG
    /\ gcs[req.filename] \in Payloads
    /\ gcs[JsonFilename(req)] = Absent

\* C8: the retrieval of a file name whose image or whose metadata object is
\* not in the bucket ends in the error fragment, returned with status 200
\* as the page is, and leaves the bucket as it was.
C8_MissingObjectReported ==
    [][/\ (/\ IsGetFile(req')
           /\ \/ gcs[req'.filename] = Absent
              \/ gcs[JsonFilename(req')] = Absent)
          => /\ req'.status = "errorpage" /\ req'.code = 200
             /\ req'.exc \in {"NotFound", "GoogleAPIError"}
             /\ req'.body = [error |-> req'.exc]
             /\ gcs' = gcs
       /\ (IsGetFile(req') /\ req'.status = "page") => req'.code = 200]_vars

C8_Witness ==
    /\ IsGetFile(req) /\ req.status = "errorpage" /\ req.code = 200
    /\ req.exc = "NotFound"
    /\ gcs[req.filename] # Absent
    /\ gcs[JsonFilename(req)] = Absent

\* a document with the fields title and description
HasCaptionFields(v) ==
    /\ v.type = "dict"
    /\ DictHas(v, "title")
    /\ DictHas(v, "description")

\* the bucket g holds the image f and a metadata object for it that parses
\* as a document with the two fields
Retrievable(g, r) ==
    /\ g[r.filename] # Absent
    /\ g[JsonFilename(r)] # Absent
    /\ HasCaptionFields(JsonLoads(g[JsonFilename(r)]))

\* C9 as claimed: a retrieval ends in the page exactly when the image and
\* the derived metadata object are in the bucket and the metadata parses as
\* a document with the fields title and description, and in the error
\* fragment otherwise.
C9_Original ==
    [][IsGetFile(req')
       => /\ req'.status \in {"page", "errorpage"}
          /\ req'.status = "page" <=> Retrievable(gcs, req')]_vars

\* C9, amended: a retrieval ends in the page exactly when the image and the
\* derived metadata object are in the bucket, the metadata parses as a
\* document with the fields title and description, and neither download
\* fails; it ends in the error fragment otherwise.
C9_RetrievalSucceedsIff ==
    [][IsGetFile(req')
       => /\ req'.status \in {"page", "errorpage"}
          /\ req'.status = "page"
             <=> (Retrievable(gcs, req') /\ req'.exc # "GoogleAPIError")]_vars

C9_Witness ==
    /\ IsGetFile(req) /\ req.status = "errorpage" /\ req.exc = "KeyError"
    /\ gcs[req.filename] \in Payloads
    /\ HoldsDocument(gcs, JsonFilename(req))

\* C10: a retrieval changes no object of the bucket, and two retrievals of
\* one file name that both end in the page, nothing served between them,
\* read the same bytes of the Caption Record and show the same page.
C10_RetrievalIdempotent ==
    [][/\ IsGetFile(req') => gcs' = gcs
       /\ (/\ IsGetFile(req) /\ req.status = "page"
           /\ IsGetFile(req') /\ req'.status = "page"
           /\ req'.filename = req.filename)
          => /\ files'[PathJoin(LOCAL_DIR, JsonFilename(req'))]
                  = files[PathJoin(LOCAL_DIR, JsonFilename(req))]
             /\ req'.metadata = req.metadata
             /\ req'.body = req.body]_vars

C10_Witness ==
    /\ served = 2
    /\ IsGetFile(req) /\ req.status = "page" /\ req.filename = C_JPG
    /\ gcs = PublishedBucket
    /\ files[PathJoin(LOCAL_DIR, JsonFilename(req))] = gcs[JsonFilename(req)]

\* the keys under which the bucket g holds an object
Objects(g) == { k \in DOMAIN g : g[k] # Absent }

\* C11: the bucket keeps no versions.  When an upload that ended in the
\* redirect is followed by another upload of the same file name that ends in
\* the redirect, the second adds no object to the bucket: the object under
\* file_name is the bytes of the second upload, the object under the derived
\* key is the record of the second upload, and every other object is as it
\* was.
C11_LatestUploadStands ==
    [][(/\ IsUpload(req) /\ req.status = "redirect"
        /\ IsUpload(req') /\ req'.status = "redirect"
        /\ req'.filename = req.filename)
       => /\ Objects(gcs') = Objects(gcs)
          /\ gcs' = [gcs EXCEPT ![req'.filename] = req'.data,
                                ![JsonFilename(req')] = JsonDumps(req'.metadata)]
          /\ JsonLoads(gcs'[JsonFilename(req')]) = req'.metadata
          /\ ValidAnswer(req')
             => req'.metadata = JsonLoads(CaptionText(req'.data))]_vars

C11_Witness ==
    /\ IsUpload(prev) /\ prev.status = "redirect"
    /\ prev.filename = C_JPG /\ prev.data = Jpeg("1")
    /\ prev.metadata = JsonLoads(CaptionText(Jpeg("1")))
    /\ IsUpload(req) /\ req.status = "redirect"
    /\ req.filename = C_JPG /\ req.data = Jpeg("2")
    /\ gcs[C_JPG] = Jpeg("2")
    /\ JsonLoads(gcs[DerivedName[C_JPG]]) = JsonLoads(CaptionText(Jpeg("2")))
    /\ Objects(gcs) = {C_JPG, DerivedName[C_JPG]}

IsGetImage(r) == r.kind = "image"

\* GET /image/<filename> changes nothing and returns the staged file of that
\* name, when and only when there is one
ServedFromStaging(r, g, f, g2, f2) ==
    IsGetImage(r)
    => /\ g2 = g /\ f2 = f
       /\ r.status \in {"file", "unhandled"}
       /\ r.status = "file" <=> f[PathJoin(LOCAL_DIR, r.filename)] # Absent
       /\ r.status = "file"
          => /\ r.code = 200
             /\ r.body = [content |-> f[PathJoin(LOCAL_DIR, r.filename)]]

\* C12 as claimed: GET /image/<filename> serves the staged file and nothing
\* else, and after an upload that ended in the redirect only a retrieval
\* stages a copy of its image again.
C12_Original ==
    [][/\ ServedFromStaging(req', gcs, files, gcs', files')
       /\ (/\ IsUpload(req) /\ req.status = "redirect"
           /\ files'[LocalPath(req)] # Absent)
          => IsGetFile(req')]_vars

\* C12, amended: GET /image/<filename> serves the staged file and nothing
\* else; right after an upload that ended in the redirect it fails; and a
\* path of the staging directory that holds no file comes to hold one only
\* by a retrieval or by an upload that ends in the error response.
C12_ImageFromStaging ==
    [][/\ ServedFromStaging(req', gcs, files, gcs', files')
       /\ (/\ IsUpload(req) /\ req.status = "redirect"
           /\ IsGetImage(req') /\ req'.filename = req.filename)
          => req'.status = "unhandled"
       /\ \A p \in Paths :
            (files[p] = Absent /\ files'[p] # Absent)
            => \/ IsGetFile(req')
               \/ IsUpload(req') /\ req'.status = "error"]_vars

C12_Witness ==
    /\ IsGetImage(req) /\ req.status = "file"
    /\ req.filename = C_JPG
    /\ req.body = [content |-> Jpeg("2")]
    /\ gcs = PublishedBucket
    /\ gcs[C_JPG] = Jpeg("1")

\* the place of a statement of upload() in the order stage, publish image,
\* caption, persist metadata locally, publish metadata, cleanup, result
Position(pc) ==
    CASE pc = "save" -> 1
      [] pc = "upload_image" -> 2
      [] pc = "caption" -> 3
      [] pc = "dump" -> 4
      [] pc = "upload_json" -> 5
      [] pc = "remove_image" -> 6
      [] pc = "remove_json" -> 7
      [] pc = "return" -> 8

\* what the statement at pc may change: the staging directory, the bucket,
\* or neither
StepFrame(pc, g, f, g2, f2) ==
    CASE pc \in {"save", "dump", "remove_image", "remove_json"} -> g2 = g
      [] pc \in {"upload_image", "upload_json"} -> f2 = f
      [] pc = "caption" -> g2 = g /\ f2 = f

\* one statement of the running upload r, which leaves it as r2: the next
\* in the order, or the error response at the statement that raised
InOrder(r, r2, g, f, g2, f2) ==
    /\ StepFrame(r.pc, g, f, g2, f2)
    /\ \/ /\ InFlight(r2)
          /\ Position(r2.pc) = Position(r.pc) + 1
       \/ /\ r2.status = "redirect" /\ r2.code = 302
          /\ r.pc = "remove_json" /\ r2.pc = "return"
       \/ /\ r2.status = "error" /\ r2.code = 500
          /\ r2.pc = r.pc
          /\ g2 = g /\ f2 = f

\* C13: the statements of one upload run in the order stage, publish image,
\* caption, persist metadata locally, publish metadata, cleanup, result,
\* each once; the statement that raises is the last that runs, the answered
\* request changes nothing any more; and every upload that runs is answered,
\* by the redirect or by the error response.
C13_StepOrder ==
    /\ [][\A c \in Clients :
            /\ (IsUploadRunning(reqs[c]) /\ reqs'[c] # reqs[c])
               => InOrder(reqs[c], reqs'[c], gcs, files, gcs', files')
            /\ (Finished(reqs[c]) /\ reqs'[c] # reqs[c])
               => /\ InFlight(reqs'[c])
                  /\ reqs'[c].pc \in {"save", "download_image"}
                  /\ gcs' = gcs /\ files' = files]_vars
    /\ \A c \in Clients :
          IsUploadRunning(reqs[c])
          ~> (IsUpload(reqs[c]) /\ reqs[c].status \in {"redirect", "error"})

C13_Witness ==
    /\ served = 2
    /\ IsUpload(reqs["a"]) /\ reqs["a"].status = "error"
    /\ reqs["a"].pc = "upload_json"
    /\ reqs["a"].data = Jpeg("2")
    /\ gcs[C_JPG] = Jpeg("2")
    /\ files[JsonPath(reqs["a"])] = JsonDumps(reqs["a"].metadata)
    /\ HoldsDocument(gcs, DerivedName[C_JPG])

\* the upload r failed at the upload of the image or at a later statement,
\* up to the upload of the metadata
FailedAfterStaging(r) ==
    /\ IsUpload(r) /\ r.status = "error"
    /\ r.pc \in {"upload_image", "caption", "dump", "upload_json"}

\* C14: an upload that fails at the upload of the image or at a later
\* statement up to the upload of the metadata removes no file from the
\* staging directory: the staged image is still there after the error
\* response, with the bytes of the request unless the metadata was written
\* over it at the same path, and so is the staged metadata when it was
\* written.
C14_FailureKeepsStaging ==
    [][FailedAfterStaging(req')
       => /\ \A p \in Paths : files[p] # Absent => files'[p] # Absent
          /\ files'[LocalPath(req')] # Absent
          /\ (JsonPath(req') # LocalPath(req') \/ req'.pc # "upload_json")
             => files'[LocalPath(req')] = req'.data
          /\ req'.pc = "upload_json"
             => files'[JsonPath(req')] = JsonDumps(req'.metadata)]_vars

C14_Witness ==
    /\ IsUpload(req) /\ req.status = "error" /\ req.pc = "upload_json"
    /\ req.filename = C_JPG
    /\ files[LocalPath(req)] = req.data
    /\ files[JsonPath(req)] = JsonDumps(req.metadata)
    /\ gcs[req.filename] = req.data

\* the documents the caption service's answers for the bytes b parse to
RecordsFor(b) ==
    { JsonLoads(CaptionText(b)), JsonLoads(TitleOnlyText(b)), JsonLoads(StringText(b)) }

\* the bucket g holds under the name f the bytes of one upload and under the
\* derived key the record made for the bytes of another
InconsistentPair(g, f) ==
    /\ g[f] \in Payloads
    /\ g[DerivedName[f]] # Absent
    /\ \E b \in Payloads \ {g[f]} : JsonLoads(g[DerivedName[f]]) \in RecordsFor(b)

\* C15: one upload never leaves an inconsistent pair, the image of one
\* request with the record made for the bytes of another: the pair needs a
\* second request.  Two uploads of one file name that run side by side
\* reach it (C15_Witness).
C15_PairNeedsTwoRequests ==
    \A f \in StepNames : InconsistentPair(gcs, f) => served >= 2

\* two uploads of c.jpg, no other request: a published its record for its
\* own bytes after b had published its image, and removed the file b had
\* staged before b asked for the caption
C15_Witness ==
    /\ served = 2
    /\ IsUpload(reqs["a"]) /\ reqs["a"].status = "redirect"
    /\ reqs["a"].filename = C_JPG /\ reqs["a"].data = Jpeg("1")
    /\ IsUpload(reqs["b"]) /\ reqs["b"].status = "error"
    /\ reqs["b"].filename = C_JPG /\ reqs["b"].data = Jpeg("2")
    /\ reqs["b"].pc = "caption" /\ reqs["b"].exc = "FileNotFoundError"
    /\ gcs[C_JPG] = Jpeg("2")
    /\ JsonLoads(gcs[DerivedName[C_JPG]]) = JsonLoads(CaptionText(Jpeg("1")))
    /\ InconsistentPair(gcs, C_JPG)

\* the staged files the running request r has written and not removed
StagedBy(r) ==
    IF IsUploadRunning(r)
    THEN CASE r.pc \in {"upload_image", "caption", "dump"} -> {LocalPath(r)}
           [] r.pc \in {"upload_json", "remove_image"} -> {LocalPath(r), JsonPath(r)}
           [] r.pc = "remove_json" -> {JsonPath(r)}
           [] OTHER -> {}
    ELSE IF IsGetFileRunning(r)
    THEN CASE r.pc = "download_json" -> {PathJoin(LOCAL_DIR, r.filename)}
           [] r.pc = "load" -> {PathJoin(LOCAL_DIR, r.filename),
                                PathJoin(LOCAL_DIR, JsonFilename(r))}
           [] OTHER -> {}
    ELSE {}

\* the staged file the next statement of the running request r reads
ReadBy(r) ==
    IF IsUploadRunning(r)
    THEN CASE r.pc \in {"upload_image", "caption"} -> {LocalPath(r)}
           [] r.pc = "upload_json" -> {JsonPath(r)}
           [] OTHER -> {}
    ELSE IF IsGetFileRunning(r) /\ r.pc = "load"
    THEN {PathJoin(LOCAL_DIR, JsonFilename(r))}
    ELSE {}

\* C16: a staged file is never shared.  No statement of a running request
\* reads, overwrites or removes a staged file that another running request
\* has written.
C16_StagedFileNotShared ==
    [][\A c \in Clients, d \in Clients :
         (/\ c # d
          /\ InFlight(reqs[c]) /\ reqs'[c] # reqs[c]
          /\ InFlight(reqs[d]))
         => \A p \in StagedBy(reqs[d]) :
              /\ files'[p] = files[p]
              /\ p \notin ReadBy(reqs[c])]_vars

\* the upload r has published its metadata
PublishedMetadata(r) ==
    IsUpload(r) /\ r.pc \in {"remove_image", "remove_json", "return"}

\* C17: the derived key is never the key of the image.  For every file name
\* an upload is sent with, once the metadata is published the image of the
\* same run is still under file_name, the staged metadata is another file
\* than the staged image, and the cleanup removes the two without failing.
C17_DerivedKeyDistinct ==
    PublishedMetadata(req)
    => /\ JsonFilename(req) # req.filename
       /\ JsonPath(req) # LocalPath(req)
       /\ gcs[req.filename] = req.data
       /\ req.status = "redirect"

\* the bucket g holds the image f and a record for it that a retrieval shows
RetrievableName(g, f) ==
    /\ g[f] # Absent
    /\ g[DerivedName[f]] # Absent
    /\ HasCaptionFields(JsonLoads(g[DerivedName[f]]))

\* C18: the derived keys of two different image names differ, so an upload
\* of the name A that ends in the redirect leaves the record that a
\* retrieval shows for another image name B as it was.
C18_KeysSeparateImages ==
    [][(IsUpload(req') /\ req'.status = "redirect")
       => \A B \in ImageNames \ {req'.filename} :
            RetrievableName(gcs, B)
            => /\ DerivedName[B] # JsonFilename(req')
               /\ gcs'[DerivedName[B]] = gcs[DerivedName[B]]]_vars

\* the staging directory f holds the image and the metadata that the
\* retrieval r downloaded
StagedByRetrieval(r, f) ==
    /\ f[PathJoin(LOCAL_DIR, r.filename)] # Absent
    /\ f[PathJoin(LOCAL_DIR, JsonFilename(r))] # Absent

\* C19: a retrieval does not clean the staging directory.  After a retrieval
\* that ended in the page the staged image and the staged metadata are the
\* objects it downloaded, and the request served next leaves both in the
\* staging directory unless it is an upload of the same file name that ends
\* in the redirect.
C19_RetrievalKeepsStaging ==
    [][/\ (IsGetFile(req') /\ req'.status = "page")
          => /\ files'[PathJoin(LOCAL_DIR, req'.filename)] = gcs[req'.filename]
             /\ files'[PathJoin(LOCAL_DIR, JsonFilename(req'))]
                  = gcs[JsonFilename(req')]
       /\ (/\ IsGetFile(req) /\ req.status = "page"
           /\ ~StagedByRetrieval(req, files'))
          => /\ IsUpload(req') /\ req'.status = "redirect"
             /\ req'.filename = req.filename]_vars

====
